---- MODULE Spec2Model ----
(***************************************************************************)
(* Model of the drug-response-prediction notebooks (masohn/DRP):           *)
(*   - the three training loops: STEP02_Autoencoder.ipynb,                 *)
(*     STEP02_Transformer.ipynb (both with early stopping) and train_model *)
(*     of the SMILES encoder notebook (src/unnamed/part_001);              *)
(*   - the SMILES tokenizer / vocabulary / encode / pad / decode pipeline  *)
(*     of the SMILES encoder notebook;                                     *)
(*   - a run of the SMILES encoder notebook sample by sample: split,       *)
(*     vocabulary, train_model on the padded sequences (loss, optimizer    *)
(*     calls), save, evaluate_reconstruction;                              *)
(*   - the constructor and the forward pass of MultiHeadAttention          *)
(*     (STEP02_Transformer.ipynb, STEP02_Eval.ipynb), the forward pass as  *)
(*     the samples each output row is computed from;                       *)
(*   - scatter_plot of STEP02_Eval.ipynb;                                  *)
(*   - the pair-merge vocabulary learning behind the learn_SPE call of     *)
(*     src/unnamed/part_000 and the vocabulary file read by part_001.      *)
(* Strings are sequences of one-character strings, so that substring       *)
(* search, str.replace, str.split and "".join are computed, not assumed.   *)
(* Floating-point losses are integers in units of one loss quantum, plus   *)
(* the value Inf (float("inf"), also standing for any non-finite loss).    *)
(***************************************************************************)
EXTENDS Integers, Sequences, FiniteSets, TLC

VARIABLES
    \* ---- training loops ----
    loop,              \* which notebook's loop runs
    epochs,            \* epoch budget (epochs / num_epochs)
    patience,          \* early-stopping patience
    min_delta,         \* early-stopping minimum improvement
    pc,                \* position of the notebook's control flow
    epoch,             \* the for loop's index (0-based, as in the code)
    step,              \* batches processed in the current pass
    mode,              \* nn.Module mode: "init", "train" or "eval"
    params,            \* version of the model parameters (optimizer steps taken)
    best_val_loss,
    patience_counter,
    epoch_val_loss,    \* mean validation loss of the current epoch
    val_losses,        \* val_losses.append(...); for train_model the printed losses
    saved_epochs,      \* parameter version at the end of each training pass
    ckpt,              \* the checkpoint file: << >> or <<parameter version>>
    log,               \* printed lines
    \* ---- SMILES pipeline ----
    custom_tokens,     \* ordered token list read from the vocabulary file
    smiles_training,   \* the corpus the vocabulary and max_len are built from
    itos,              \* vocab: id (0-based) -> token, specials first
    max_len,
    tpc,               \* last pipeline operation applied
    smiles,            \* the string last encoded
    sequence,          \* encode_smiles_to_indices(smiles)
    input_seq,         \* pad_sequence(sequence, max_len)
    output_tokens,     \* argmax of the model output for input_seq
    decoded_smiles,    \* result of decode_sequence
    \* ---- SMILES notebook run: split, train_model ----
    train_smiles,      \* training part of train_test_split
    val_smiles,        \* validation part of train_test_split
    fed,               \* the input sequences given to the model by train_model
    drop,              \* dropout draws of the last forward, one per position
    loss,              \* criterion(output, target) of the last forward, as its terms
    calls,             \* numbers of optimizer.zero_grad(), loss.backward(), optimizer.step()
    \* ---- evaluate_reconstruction ----
    smiles_list,
    exact,             \* for each string processed: did it decode to itself
    correct_count,
    mismatched_count,
    total_levenshtein_distance,
    total_mismatched_smiles_length,
    result,            \* the returned triple, or the exception raised
    \* ---- MultiHeadAttention.__init__ ----
    embed_dim,
    num_heads,
    head_dim,
    attention,         \* "none", "constructed" or the exception raised
    \* ---- MultiHeadAttention.forward ----
    batch_size,        \* of the last forward call, 0 before the first
    seq_length,
    rows,              \* for each output row: the samples its elements were computed from
    \* ---- learn_SPE and the vocabulary file ----
    min_frequency,
    num_symbols,       \* the target number of merges
    words,             \* the corpus, each string as its current sequence of symbols
    merges,            \* the merged pairs, in merge order
    frequencies,       \* the frequency each pair was merged at
    fragments,         \* custom_tokenizer(smiles)
    spe_fragments,     \* smiles segmented by the merges in rank order
    \* ---- scatter_plot ----
    data_loader,       \* the batches of the loader, in order
    genes,             \* x_original.shape[1]
    num_genes,
    highlight_gene_indices,
    plot,              \* position in scatter_plot, or the exception raised
    batches1,          \* the batches model1 was evaluated on
    batches2,          \* the batches model2 was evaluated on
    gene_indices,
    plotted1,          \* the gene indices scattered in the first subplot, in order
    plotted2           \* the gene indices scattered in the second subplot, in order

trainVars == <<loop, epochs, patience, min_delta, pc, epoch, step, mode, params,
               best_val_loss, patience_counter, epoch_val_loss, val_losses,
               saved_epochs, ckpt, log>>
tokVars == <<custom_tokens, smiles_training, itos, max_len, tpc, smiles, sequence,
             input_seq, output_tokens, decoded_smiles>>
runVars == <<train_smiles, val_smiles, fed, drop, loss, calls>>
evalVars == <<smiles_list, exact, correct_count, mismatched_count,
              total_levenshtein_distance, total_mismatched_smiles_length, result>>
attnVars == <<embed_dim, num_heads, head_dim, attention>>
fwdVars == <<batch_size, seq_length, rows>>
speVars == <<min_frequency, num_symbols, words, merges, frequencies, fragments,
             spe_fragments>>
plotVars == <<data_loader, genes, num_genes, highlight_gene_indices, plot,
              batches1, batches2, gene_indices, plotted1, plotted2>>
extVars == <<runVars, evalVars, attnVars, fwdVars, speVars, plotVars>>
vars == <<trainVars, tokVars, extVars>>

(***************************************************************************)
(* Bounds                                                                  *)
(***************************************************************************)
MaxEpochs == 5        \* epoch budgets 1..MaxEpochs
MaxPatience == 2      \* patience 1..MaxPatience
MaxDelta == 1         \* min_delta 0..MaxDelta (loss quanta)
MaxLoss == 1          \* finite losses 0..MaxLoss
TrainBatches == 2     \* batches (samples) per training pass
ValBatches == 1       \* batches (samples) per validation pass

\* float("inf"): larger than every finite loss; inf - x = inf.
Inf == MaxLoss + 1
Losses == 0..Inf

Loops == {"autoencoder", "transformer", "smiles"}

(***************************************************************************)
(* Training loops                                                          *)
(***************************************************************************)

\* Mutant of HasEarlyStopping: train_model stops early as the other loops do.
HasEarlyStoppingInEveryLoop == loop \in Loops

\* The Autoencoder and Transformer notebooks carry the early-stopping block;
\* train_model of the SMILES notebook has none.
HasEarlyStopping == loop \in {"autoencoder", "transformer"}

\* Mutant of Improved: every finite loss counts as an improvement.
ImprovedOnAnyFiniteLoss(v, best, d) == v # Inf

\* epoch_val_loss < best_val_loss - min_delta, on floats (inf - d = inf,
\* nothing is < a non-finite loss on the left).
Improved(v, best, d) ==
    /\ v # Inf
    /\ \/ best = Inf
       \/ v < best - d

\* Mutant of PatienceReached: off by one (patience_counter > patience).
PatienceReachedStrict(counter, p) == counter > p

\* patience_counter >= patience
PatienceReached(counter, p) == counter >= p

\* Mutant of ForExhausted: off by one (range(epochs + 1)).
ForExhaustedLate(e, n) == e > n

\* for epoch in range(epochs): the loop is exhausted
ForExhausted(e, n) == e >= n

TrainInit ==
    /\ loop \in Loops
    /\ epochs \in 1..MaxEpochs
    /\ patience \in 1..MaxPatience
    /\ min_delta \in 0..MaxDelta
    /\ pc = "for"
    /\ epoch = 0
    /\ step = 0
    /\ mode = "init"
    /\ params = 0
    /\ best_val_loss = Inf
    /\ patience_counter = 0
    /\ epoch_val_loss = Inf
    /\ val_losses = << >>
    /\ saved_epochs = << >>
    /\ ckpt = << >>
    /\ log = << >>

\* for epoch in range(epochs): model.train(); epoch_train_loss = 0
BeginEpoch ==
    /\ pc = "for"
    /\ ~ForExhausted(epoch, epochs)
    /\ pc' = "train"
    /\ mode' = "train"
    /\ step' = 0
    /\ UNCHANGED <<tokVars, extVars>>
    /\ UNCHANGED <<loop, epochs, patience, min_delta, epoch, params, best_val_loss,
                   patience_counter, epoch_val_loss, val_losses, saved_epochs,
                   ckpt, log>>

\* Mutant of TrainStep: the parameters are saved after every batch.
TrainStepWithSave ==
    /\ pc = "train"
    /\ step < TrainBatches
    /\ params' = params + 1
    /\ step' = step + 1
    /\ ckpt' = <<params'>>
    /\ UNCHANGED <<tokVars, extVars>>
    /\ UNCHANGED <<loop, epochs, patience, min_delta, pc, epoch, mode, best_val_loss,
                   patience_counter, epoch_val_loss, val_losses, saved_epochs, log>>

\* one batch of the training pass: forward, zero_grad, backward, optimizer.step()
TrainStep ==
    /\ pc = "train"
    /\ step < TrainBatches
    /\ params' = params + 1
    /\ step' = step + 1
    /\ UNCHANGED <<tokVars, extVars>>
    /\ UNCHANGED <<loop, epochs, patience, min_delta, pc, epoch, mode, best_val_loss,
                   patience_counter, epoch_val_loss, val_losses, saved_epochs,
                   ckpt, log>>

\* Mutant of BeginValidation: model.eval() is left out.
BeginValidationStillTraining ==
    /\ pc = "train"
    /\ step = TrainBatches
    /\ pc' = "validate"
    /\ step' = 0
    /\ saved_epochs' = Append(saved_epochs, params)
    /\ UNCHANGED <<tokVars, extVars>>
    /\ UNCHANGED <<loop, epochs, patience, min_delta, epoch, mode, params, best_val_loss,
                   patience_counter, epoch_val_loss, val_losses, ckpt, log>>

\* end of the training pass: model.eval(); epoch_val_loss = 0
BeginValidation ==
    /\ pc = "train"
    /\ step = TrainBatches
    /\ pc' = "validate"
    /\ mode' = "eval"
    /\ step' = 0
    /\ saved_epochs' = Append(saved_epochs, params)
    /\ UNCHANGED <<tokVars, extVars>>
    /\ UNCHANGED <<loop, epochs, patience, min_delta, epoch, params, best_val_loss,
                   patience_counter, epoch_val_loss, val_losses, ckpt, log>>

\* one batch of the validation pass, under torch.no_grad()
ValStep ==
    /\ pc = "validate"
    /\ step < ValBatches
    /\ step' = step + 1
    /\ UNCHANGED <<tokVars, extVars>>
    /\ UNCHANGED <<loop, epochs, patience, min_delta, pc, epoch, mode, params,
                   best_val_loss, patience_counter, epoch_val_loss, val_losses,
                   saved_epochs, ckpt, log>>

\* end of the validation pass: the mean validation loss is known and the
\* progress line is printed.
Report ==
    /\ pc = "validate"
    /\ step = ValBatches
    /\ \E v \in Losses :
          /\ epoch_val_loss' = v
          /\ val_losses' = Append(val_losses, v)
          /\ log' = Append(log, <<"epoch", epoch + 1, v>>)
    /\ pc' = IF HasEarlyStopping THEN "earlystop" ELSE "next"
    /\ UNCHANGED <<tokVars, extVars>>
    /\ UNCHANGED <<loop, epochs, patience, min_delta, epoch, step, mode, params,
                   best_val_loss, patience_counter, saved_epochs, ckpt>>

\* the early-stopping block
EarlyStopping ==
    /\ pc = "earlystop"
    /\ IF Improved(epoch_val_loss, best_val_loss, min_delta)
         THEN /\ best_val_loss' = epoch_val_loss
              /\ patience_counter' = 0
              /\ ckpt' = <<params>>
         ELSE /\ patience_counter' = patience_counter + 1
              /\ UNCHANGED <<best_val_loss, ckpt>>
    /\ IF PatienceReached(patience_counter', patience)
         THEN /\ log' = Append(log, <<"early stopping", epoch + 1>>)
              /\ pc' = "after"
              /\ UNCHANGED epoch
         ELSE /\ pc' = "for"
              /\ epoch' = epoch + 1
              /\ UNCHANGED log
    /\ UNCHANGED <<tokVars, extVars>>
    /\ UNCHANGED <<loop, epochs, patience, min_delta, step, mode, params,
                   epoch_val_loss, val_losses, saved_epochs>>

\* train_model: the loop body ends after the print
NextEpoch ==
    /\ pc = "next"
    /\ pc' = "for"
    /\ epoch' = epoch + 1
    /\ UNCHANGED <<tokVars, extVars>>
    /\ UNCHANGED <<loop, epochs, patience, min_delta, step, mode, params,
                   best_val_loss, patience_counter, epoch_val_loss, val_losses,
                   saved_epochs, ckpt, log>>

\* range(epochs) is exhausted
LoopExit ==
    /\ pc = "for"
    /\ ForExhausted(epoch, epochs)
    /\ pc' = "after"
    /\ UNCHANGED <<tokVars, extVars>>
    /\ UNCHANGED <<loop, epochs, patience, min_delta, epoch, step, mode, params,
                   best_val_loss, patience_counter, epoch_val_loss, val_losses,
                   saved_epochs, ckpt, log>>

\* Mutant of AfterLoop: no notebook prints a completion line.
AfterLoopSilent ==
    /\ pc = "after"
    /\ pc' = "save"
    /\ UNCHANGED <<tokVars, extVars>>
    /\ UNCHANGED <<loop, epochs, patience, min_delta, epoch, step, mode, params,
                   best_val_loss, patience_counter, epoch_val_loss, val_losses,
                   saved_epochs, ckpt, log>>

\* the statement after the loop: print("Training complete") in the
\* Transformer notebook, nothing in the other two
AfterLoop ==
    /\ pc = "after"
    /\ pc' = "save"
    /\ log' = IF loop = "transformer" THEN Append(log, <<"Training complete">>) ELSE log
    /\ UNCHANGED <<tokVars, extVars>>
    /\ UNCHANGED <<loop, epochs, patience, min_delta, epoch, step, mode, params,
                   best_val_loss, patience_counter, epoch_val_loss, val_losses,
                   saved_epochs, ckpt>>

\* the notebook cell after the training cell: torch.save(model.state_dict(), path)
\* to the same path the early-stopping block saves to
PostLoopSave ==
    /\ pc = "save"
    /\ ckpt' = <<params>>
    /\ pc' = "finished"
    /\ UNCHANGED <<tokVars, extVars>>
    /\ UNCHANGED <<loop, epochs, patience, min_delta, epoch, step, mode, params,
                   best_val_loss, patience_counter, epoch_val_loss, val_losses,
                   saved_epochs, log>>

TokIdle ==
    /\ custom_tokens = << >>
    /\ smiles_training = << >>
    /\ itos = << >>
    /\ max_len = 0
    /\ tpc = "idle"
    /\ smiles = << >>
    /\ sequence = << >>
    /\ input_seq = << >>
    /\ output_tokens = << >>
    /\ decoded_smiles = << >>

RunIdle ==
    /\ train_smiles = << >>
    /\ val_smiles = << >>
    /\ fed = {}
    /\ drop = << >>
    /\ loss = << >>
    /\ calls = [zero_grad |-> 0, backward |-> 0, step |-> 0]

EvalIdle ==
    /\ smiles_list = << >>
    /\ exact = << >>
    /\ correct_count = 0
    /\ mismatched_count = 0
    /\ total_levenshtein_distance = 0
    /\ total_mismatched_smiles_length = 0
    /\ result = << >>

AttnIdle ==
    /\ embed_dim = 0
    /\ num_heads = 0
    /\ head_dim = 0
    /\ attention = "none"

FwdIdle ==
    /\ batch_size = 0
    /\ seq_length = 0
    /\ rows = << >>

SpeIdle ==
    /\ min_frequency = 0
    /\ num_symbols = 0
    /\ words = << >>
    /\ merges = << >>
    /\ frequencies = << >>
    /\ fragments = << >>
    /\ spe_fragments = << >>

PlotIdle ==
    /\ data_loader = << >>
    /\ genes = 0
    /\ num_genes = 0
    /\ highlight_gene_indices = << >>
    /\ plot = "none"
    /\ batches1 = << >>
    /\ batches2 = << >>
    /\ gene_indices = << >>
    /\ plotted1 = << >>
    /\ plotted2 = << >>

ExtIdle == RunIdle /\ EvalIdle /\ AttnIdle /\ FwdIdle /\ SpeIdle /\ PlotIdle

Init == TrainInit /\ TokIdle /\ ExtIdle

Next ==
    \/ BeginEpoch
    \/ TrainStep
    \/ BeginValidation
    \/ ValStep
    \/ Report
    \/ EarlyStopping
    \/ NextEpoch
    \/ LoopExit
    \/ AfterLoop
    \/ PostLoopSave

Spec == Init /\ [][Next]_vars

\* The notebooks are single-threaded, synchronous programs: a statement that
\* can run does run.
FairSpec == Spec /\ WF_vars(Next)

(***************************************************************************)
(* SMILES pipeline: strings                                                *)
(***************************************************************************)
MaxStr == 3           \* SMILES strings of 0..MaxStr characters are encoded
MaxErrors == 1        \* positions at which the model output differs from its input
MaxExtraPad == 2      \* pad ids appended when decodings or losses are compared

Alphabet == {"C", "O"}

\* All strings of at most n characters over the alphabet.
StringsUpTo(n) == UNION {[1..k -> Alphabet] : k \in 0..n}

\* Code points, for Python's string order.
Ord(c) == [C |-> 67, N |-> 78, O |-> 79, c |-> 99][c]

PAD == <<"<", "p", "a", "d", ">">>
UNK == <<"<", "u", "n", "k", ">">>
SOS == <<"<", "s", "o", "s", ">">>
EOS == <<"<", "e", "o", "s", ">">>
Specials == <<PAD, UNK, SOS, EOS>>
SpecialTokens == {PAD, UNK, SOS, EOS}

\* token in smiles_string
Contains(s, t) ==
    \E i \in 1..(Len(s) - Len(t) + 1) : SubSeq(s, i, i + Len(t) - 1) = t

\* Mutant of Replace: str.replace(old, new, 1), only the first occurrence.
RECURSIVE ReplaceFirst(_, _, _)
ReplaceFirst(s, old, new) ==
    IF Len(s) < Len(old) THEN s
    ELSE IF SubSeq(s, 1, Len(old)) = old
           THEN new \o SubSeq(s, Len(old) + 1, Len(s))
           ELSE <<Head(s)>> \o ReplaceFirst(Tail(s), old, new)

\* str.replace(old, new), old not empty: leftmost, non-overlapping occurrences
RECURSIVE Replace(_, _, _)
Replace(s, old, new) ==
    IF Len(s) < Len(old) THEN s
    ELSE IF SubSeq(s, 1, Len(old)) = old
           THEN new \o Replace(SubSeq(s, Len(old) + 1, Len(s)), old, new)
           ELSE <<Head(s)>> \o Replace(Tail(s), old, new)

\* Mutant of Split: the run of characters at the end of the string is dropped.
RECURSIVE SplitFromNoFlush(_, _)
SplitFromNoFlush(s, word) ==
    IF s = << >> THEN << >>
    ELSE IF Head(s) = " "
           THEN (IF word = << >> THEN << >> ELSE <<word>>) \o SplitFromNoFlush(Tail(s), << >>)
           ELSE SplitFromNoFlush(Tail(s), Append(word, Head(s)))

SplitNoFlush(s) == SplitFromNoFlush(s, << >>)

\* str.split(): the maximal runs of non-blank characters, in order
RECURSIVE SplitFrom(_, _)
SplitFrom(s, word) ==
    IF s = << >> THEN (IF word = << >> THEN << >> ELSE <<word>>)
    ELSE IF Head(s) = " "
           THEN (IF word = << >> THEN << >> ELSE <<word>>) \o SplitFrom(Tail(s), << >>)
           ELSE SplitFrom(Tail(s), Append(word, Head(s)))

Split(s) == SplitFrom(s, << >>)

\* "".join(list of strings)
RECURSIVE Join(_)
Join(ts) == IF ts = << >> THEN << >> ELSE Head(ts) \o Join(Tail(ts))

\* Python's < on strings
RECURSIVE LexLess(_, _)
LexLess(a, b) ==
    IF a = << >> THEN b # << >>
    ELSE IF b = << >> THEN FALSE
    ELSE IF Head(a) = Head(b) THEN LexLess(Tail(a), Tail(b))
    ELSE Ord(Head(a)) < Ord(Head(b))

\* [x] * n: the empty list when n <= 0
ListRepeat(x, n) == IF n <= 0 THEN << >> ELSE [i \in 1..n |-> x]

(***************************************************************************)
(* SMILES pipeline: tokenizer, vocabulary, encode, pad, decode             *)
(***************************************************************************)

\* Mutant of Bracket: the token list is gone through from its end.
RECURSIVE BracketLastFirst(_, _)
BracketLastFirst(s, toks) ==
    IF toks = << >> THEN s
    ELSE BracketLastFirst(IF Contains(s, toks[Len(toks)])
                            THEN Replace(s, toks[Len(toks)],
                                         <<" ">> \o toks[Len(toks)] \o <<" ">>)
                            ELSE s,
                          SubSeq(toks, 1, Len(toks) - 1))

\* the loop of custom_tokenizer over the token list
RECURSIVE Bracket(_, _)
Bracket(s, toks) ==
    IF toks = << >> THEN s
    ELSE Bracket(IF Contains(s, Head(toks))
                   THEN Replace(s, Head(toks), <<" ">> \o Head(toks) \o <<" ">>)
                   ELSE s,
                 Tail(toks))

Tokenize(s, toks) == Split(Bracket(s, toks))

custom_tokenizer(smiles_string) == Tokenize(smiles_string, custom_tokens)

\* yield_tokens over the corpus, flattened: every token occurrence
RECURSIVE yield_tokens(_, _)
yield_tokens(corpus, toks) ==
    IF corpus = << >> THEN << >>
    ELSE Tokenize(Head(corpus), toks) \o yield_tokens(Tail(corpus), toks)

Count(t, occ) == Cardinality({i \in DOMAIN occ : occ[i] = t})

\* build_vocab_from_iterator orders the tokens by descending frequency, then
\* by the string order
RECURSIVE SortByFrequency(_, _)
SortByFrequency(S, occ) ==
    IF S = {} THEN << >>
    ELSE LET first == CHOOSE x \in S : \A y \in S \ {x} :
                          \/ Count(x, occ) > Count(y, occ)
                          \/ (Count(x, occ) = Count(y, occ) /\ LexLess(x, y))
         IN  <<first>> \o SortByFrequency(S \ {first}, occ)

\* vocab = build_vocab_from_iterator(yield_tokens(smiles_training), specials=[...])
BuildVocab(corpus, toks) ==
    LET occ == yield_tokens(corpus, toks)
    IN  Specials \o SortByFrequency({occ[i] : i \in DOMAIN occ}, occ)

InVocab(token) == \E i \in DOMAIN itos : itos[i] = token

\* Mutant of VocabIndex: tokens absent from the vocabulary get the pad id.
VocabIndexDefaultPad(token) ==
    IF InVocab(token) THEN (CHOOSE i \in DOMAIN itos : itos[i] = token) - 1 ELSE 0

\* vocab[token], with vocab.set_default_index(vocab["<unk>"])
VocabIndex(token) ==
    IF InVocab(token)
      THEN (CHOOSE i \in DOMAIN itos : itos[i] = token) - 1
      ELSE (CHOOSE i \in DOMAIN itos : itos[i] = UNK) - 1

\* vocab.lookup_token(idx)
lookup_token(idx) == itos[idx + 1]

encode_smiles_to_indices(s) ==
    LET toks == custom_tokenizer(s)
    IN  <<VocabIndex(SOS)>> \o [i \in 1..Len(toks) |-> VocabIndex(toks[i])]
            \o <<VocabIndex(EOS)>>

\* Mutant of pad_sequence: one pad too few.
pad_sequence_short(seq, n) == seq \o ListRepeat(VocabIndex(PAD), n - Len(seq) - 1)

pad_sequence(seq, n) == seq \o ListRepeat(VocabIndex(PAD), n - Len(seq))

\* Mutant of MaxEncodedLen: the two boundary markers are not counted.
MaxEncodedLenWithoutMarkers(corpus, toks) ==
    LET lens == {Len(Tokenize(corpus[i], toks)) : i \in DOMAIN corpus}
    IN  CHOOSE n \in lens : \A m \in lens : m <= n

\* max_len = max(len(encode_smiles_to_indices(smile)) for smile in smiles_training)
MaxEncodedLen(corpus, toks) ==
    LET lens == {Len(Tokenize(corpus[i], toks)) + 2 : i \in DOMAIN corpus}
    IN  CHOOSE n \in lens : \A m \in lens : m <= n

\* Mutant of DecodedTokens: the end marker is passed over and the loop goes on.
RECURSIVE DecodedTokensSkipEos(_)
DecodedTokensSkipEos(ids) ==
    IF ids = << >> THEN << >>
    ELSE IF lookup_token(Head(ids)) = EOS THEN DecodedTokensSkipEos(Tail(ids))
    ELSE <<lookup_token(Head(ids))>> \o DecodedTokensSkipEos(Tail(ids))

\* the loop of decode_sequence: the tokens before the first <eos>, joined
RECURSIVE DecodedTokens(_)
DecodedTokens(ids) ==
    IF ids = << >> THEN << >>
    ELSE IF lookup_token(Head(ids)) = EOS THEN << >>
    ELSE <<lookup_token(Head(ids))>> \o DecodedTokens(Tail(ids))

\* Mutant of StripSpecials: "<pad>" is not removed.
StripSpecialsKeepPad(s) == Replace(Replace(s, SOS, << >>), EOS, << >>)

\* Mutant of StripSpecials: "<sos>" is not removed.
StripSpecialsKeepSos(s) == Replace(Replace(s, PAD, << >>), EOS, << >>)

\* .replace("<pad>", "").replace("<sos>", "").replace("<eos>", "")
StripSpecials(s) == Replace(Replace(Replace(s, PAD, << >>), SOS, << >>), EOS, << >>)

\* decode_sequence, from the argmax of the model output on
DecodeOutput(ids) == StripSpecials(Join(DecodedTokens(ids)))

\* The vocabulary files and corpora the pipeline is run on.
VocabularyFiles ==
    { << >>,
      << <<"C", "C">> >>,
      << <<"C", "O">> >>,
      << <<"C", "C">>, <<"C", "O">> >>,
      << <<"C", "O">>, <<"C", "C">> >>,
      << <<"C", "C">>, <<"C", "C", "O">> >>,
      << <<"C", "C", "O">>, <<"C", "C">> >> }

TrainingCorpora ==
    { << <<"C", "C", "O">> >>,
      << <<"C", "O">>, <<"O", "C", "C">> >>,
      << <<"C">>, <<"O">>, <<"C", "C">> >>,
      << <<"C", "C", "O", "C", "C">>, <<"C", "C", "O">> >> }

\* The sequences that differ from seq at no more than k positions, over the
\* vocabulary ids.
RECURSIVE WithinErrors(_, _)
WithinErrors(seq, k) ==
    IF k = 0 THEN {seq}
    ELSE LET closer == WithinErrors(seq, k - 1)
         IN  closer \cup {[out EXCEPT ![i] = v] :
                            out \in closer, i \in DOMAIN seq, v \in 0..(Len(itos) - 1)}

\* The outputs the model can give for an input (argmax per position): one
\* vocabulary id per position, at most MaxErrors of them different from the
\* input's.
ModelOutputs(input) == WithinErrors(input, MaxErrors)

TrainIdle ==
    /\ loop = "smiles"
    /\ epochs = 0
    /\ patience = 0
    /\ min_delta = 0
    /\ pc = "idle"
    /\ epoch = 0
    /\ step = 0
    /\ mode = "eval"
    /\ params = 0
    /\ best_val_loss = Inf
    /\ patience_counter = 0
    /\ epoch_val_loss = Inf
    /\ val_losses = << >>
    /\ saved_epochs = << >>
    /\ ckpt = << >>
    /\ log = << >>

PipelineInit ==
    /\ custom_tokens \in VocabularyFiles
    /\ smiles_training \in TrainingCorpora
    /\ itos = BuildVocab(smiles_training, custom_tokens)
    /\ max_len = MaxEncodedLen(smiles_training, custom_tokens)
    /\ tpc = "vocab"
    /\ smiles = << >>
    /\ sequence = << >>
    /\ input_seq = << >>
    /\ output_tokens = << >>
    /\ decoded_smiles = << >>

\* smiles_to_padded_tensor(smiles)
SmilesToPaddedTensor ==
    /\ tpc = "vocab"
    /\ \E s \in StringsUpTo(MaxStr) \cup {smiles_training[i] : i \in DOMAIN smiles_training} :
          /\ smiles' = s
          /\ sequence' = encode_smiles_to_indices(s)
          /\ input_seq' = pad_sequence(encode_smiles_to_indices(s), max_len)
    /\ tpc' = "padded"
    /\ output_tokens' = << >>
    /\ decoded_smiles' = << >>
    /\ UNCHANGED <<custom_tokens, smiles_training, itos, max_len>>
    /\ UNCHANGED <<trainVars, extVars>>

\* decode_sequence(input_seq)
DecodeSequence ==
    /\ tpc = "padded"
    /\ \E out \in ModelOutputs(input_seq) :
          /\ output_tokens' = out
          /\ decoded_smiles' = DecodeOutput(out)
    /\ tpc' = "decoded"
    /\ UNCHANGED <<custom_tokens, smiles_training, itos, max_len, smiles, sequence,
                   input_seq>>
    /\ UNCHANGED <<trainVars, extVars>>

\* the evaluation loop goes on to its next string
NextString ==
    /\ tpc = "decoded"
    /\ tpc' = "vocab"
    /\ smiles' = << >>
    /\ sequence' = << >>
    /\ input_seq' = << >>
    /\ output_tokens' = << >>
    /\ decoded_smiles' = << >>
    /\ UNCHANGED <<custom_tokens, smiles_training, itos, max_len>>
    /\ UNCHANGED <<trainVars, extVars>>

PipelineStart == TrainIdle /\ PipelineInit /\ ExtIdle

PipelineNext ==
    \/ SmilesToPaddedTensor
    \/ DecodeSequence
    \/ NextString

PipelineSpec == PipelineStart /\ [][PipelineNext]_vars

(***************************************************************************)
(* SMILES notebook: numbers, edit distance, loss                           *)
(***************************************************************************)
\* def train_model(model, train_smiles_list, val_smiles_list, num_epochs=2,
\* lr=0.001), called without num_epochs
num_epochs == 2

RECURSIVE GCD(_, _)
GCD(a, b) == IF b = 0 THEN a ELSE GCD(b, a % b)

\* A Python number as an exact fraction in lowest terms (float rounding is
\* not modelled), or the exception raised in place of a value.
Number(n) == [ok |-> TRUE, num |-> n, den |-> 1]
ZeroDivisionError == [ok |-> FALSE, num |-> 0, den |-> 0]

\* a / b on non-negative integers
TrueDiv(a, b) ==
    IF b = 0 THEN ZeroDivisionError
    ELSE [ok |-> TRUE, num |-> a \div GCD(a, b), den |-> b \div GCD(a, b)]

\* x * n for a number x and a non-negative integer n
Times(x, n) == IF x.ok THEN TrueDiv(x.num * n, x.den) ELSE x

\* str.upper() on the characters of the model
UpperChar(ch) == IF ch = "c" THEN "C" ELSE IF ch = "o" THEN "O" ELSE ch
Upper(s) == [i \in DOMAIN s |-> UpperChar(s[i])]

Min2(a, b) == IF a <= b THEN a ELSE b

\* One more row of the edit-distance table: row holds the distances of a
\* prefix of the first string to every prefix of b, ch is its next character.
RECURSIVE NextRow(_, _, _, _)
NextRow(row, ch, b, acc) ==
    IF Len(acc) = Len(b) + 1 THEN acc
    ELSE LET j == Len(acc)
         IN  NextRow(row, ch, b,
                     Append(acc, Min2(Min2(row[j + 1] + 1, acc[j] + 1),
                                      row[j] + (IF ch = b[j] THEN 0 ELSE 1))))

RECURSIVE LevenshteinFrom(_, _, _)
LevenshteinFrom(a, b, row) ==
    IF a = << >> THEN row[Len(b) + 1]
    ELSE LevenshteinFrom(Tail(a), b, NextRow(row, Head(a), b, <<row[1] + 1>>))

\* Levenshtein.distance(a, b): insertions, deletions, substitutions, unit cost
Levenshtein(a, b) == LevenshteinFrom(a, b, [j \in 1..(Len(b) + 1) |-> j - 1])

\* The draws of nn.Dropout at one position (0: nothing dropped, as in eval
\* mode).
DropoutDraws == {0, 1}
NoDropout(seq) == [i \in DOMAIN seq |-> 0]

\* Mutant of AttendedPositions: self-attention runs along the padded
\* sequence (as it would with batch_first=True).
AttendedPositionsWholeInput(seq, i) == DOMAIN seq

\* The positions self-attention mixes into position i. The encoder layer is
\* built without batch_first and the input tensor has shape (1, L): the
\* layer takes the first axis as the sequence and the second as the batch,
\* so each of the L positions is a sequence of length 1 of its own. No mask
\* is passed (src_mask=None).
AttendedPositions(seq, i) == {i}

\* model(input_seq): what the logits at each position are computed from
\* (embedding of the token, attention over the attended positions, dropout
\* draws), with the parameters p
Forward(seq, draws, p) ==
    [i \in DOMAIN seq |->
        [params |-> p,
         attends |-> {<<j, seq[j], draws[j]>> : j \in AttendedPositions(seq, i)}]]

\* nn.CrossEntropyLoss(ignore_index=vocab["<pad>"]): the mean of the
\* per-position cross entropies over the positions whose target is not the
\* pad id, as the terms of that mean, in order
RECURSIVE CrossEntropyFrom(_, _, _)
CrossEntropyFrom(output, target, i) ==
    IF i > Len(target) THEN << >>
    ELSE (IF target[i] = VocabIndex(PAD) THEN << >>
          ELSE << [logits |-> output[i], target |-> target[i]] >>)
         \o CrossEntropyFrom(output, target, i + 1)

CrossEntropyLoss(output, target) == CrossEntropyFrom(output, target, 1)

(***************************************************************************)
(* SMILES notebook: split, vocabulary, train_model, evaluate_reconstruction *)
(***************************************************************************)

\* The vocabulary files, corpora and evaluation lists the notebook is run on.
NotebookVocabularyFiles ==
    { << >>,
      << <<"C", "C">> >>,
      << <<"C">>, <<"O">> >> }

NotebookCorpora ==
    { << <<"C", "O">>, <<"O", "C", "C">> >>,
      << <<"C">>, <<"O">>, <<"C", "C">> >>,
      << <<"c", "c">>, <<"C", "C">> >>,
      << <<"C", "C", "O">> >> }

EvaluationLists ==
    { << >>,
      << <<"C", "O">> >>,
      << <<"C", "O">>, <<"O", "C", "C">> >>,
      << <<"c", "c">>, <<"C", "C">> >>,
      << <<"C">>, <<"C", "C", "C">> >> }

\* train_test_split(test_size=0.2): the test part has ceil(0.2 * n) elements
TestSize(n) == (n + 4) \div 5

\* The shuffles of n elements.
Shuffles(n) == {f \in [1..n -> 1..n] : \A i, j \in 1..n : f[i] = f[j] => i = j}

\* Mutant of ListExhausted: the loop leaves its last element out.
ListExhaustedEarly(i, list) == i >= Len(list) - 1

\* for x in list: the loop is over after i elements
ListExhausted(i, list) == i >= Len(list)

\* Mutant of IsExactMatch: the comparison ignores case.
IsExactMatchIgnoringCase(s, d) == Upper(s) = Upper(d)

\* smiles == decoded_smiles
IsExactMatch(s, d) == s = d

\* Mutant of MeanOverMismatches: the division is not guarded.
MeanUnguarded(total, count) == TrueDiv(total, count)

\* total / mismatched_count if mismatched_count > 0 else 0
MeanOverMismatches(total, count) ==
    IF count > 0 THEN TrueDiv(total, count) ELSE Number(0)

\* what no action of the notebook run changes
notebookFixed == <<loop, epochs, patience, min_delta, best_val_loss, patience_counter,
                   epoch_val_loss, val_losses, saved_epochs, custom_tokens,
                   smiles_training, tpc>>

NotebookInit ==
    /\ loop = "smiles"
    /\ epochs = num_epochs
    /\ patience = 0
    /\ min_delta = 0
    /\ pc = "split"
    /\ epoch = 0
    /\ step = 0
    /\ mode = "none"
    /\ params = 0
    /\ best_val_loss = Inf
    /\ patience_counter = 0
    /\ epoch_val_loss = Inf
    /\ val_losses = << >>
    /\ saved_epochs = << >>
    /\ ckpt = << >>
    /\ log = << >>
    /\ custom_tokens \in NotebookVocabularyFiles
    /\ smiles_training \in NotebookCorpora
    /\ itos = << >>
    /\ max_len = 0
    /\ tpc = "idle"
    /\ smiles = << >>
    /\ sequence = << >>
    /\ input_seq = << >>
    /\ output_tokens = << >>
    /\ decoded_smiles = << >>
    /\ ExtIdle

\* train_smiles, val_smiles = train_test_split(smiles_training, test_size=0.2,
\* random_state=42): a shuffle, its first ceil(0.2 n) elements are the test
\* part; ValueError when the training part would be empty
TrainTestSplit ==
    /\ pc = "split"
    /\ LET n == Len(smiles_training)
           t == TestSize(n)
       IN  IF n - t < 1
             THEN /\ pc' = "ValueError"
                  /\ UNCHANGED <<train_smiles, val_smiles>>
             ELSE /\ pc' = "vocab"
                  /\ \E f \in Shuffles(n) :
                        /\ val_smiles' = [i \in 1..t |-> smiles_training[f[i]]]
                        /\ train_smiles' = [i \in 1..(n - t) |-> smiles_training[f[t + i]]]
    /\ UNCHANGED <<notebookFixed, epoch, step, mode, params, ckpt, log>>
    /\ UNCHANGED <<itos, max_len, smiles, sequence, input_seq, output_tokens, decoded_smiles>>
    /\ UNCHANGED <<fed, drop, loss, calls, evalVars, attnVars, fwdVars, speVars, plotVars>>

\* vocab = build_vocab_from_iterator(...); max_len = max(...)
BuildVocabulary ==
    /\ pc = "vocab"
    /\ itos' = BuildVocab(smiles_training, custom_tokens)
    /\ max_len' = MaxEncodedLen(smiles_training, custom_tokens)
    /\ pc' = "model"
    /\ UNCHANGED <<notebookFixed, epoch, step, mode, params, ckpt, log>>
    /\ UNCHANGED <<smiles, sequence, input_seq, output_tokens, decoded_smiles>>
    /\ UNCHANGED <<runVars, evalVars, attnVars, fwdVars, speVars, plotVars>>

\* model = TransformerModel(len(vocab), 512, 8, 3, 0.1); train_model(model, ...)
ConstructModel ==
    /\ pc = "model"
    /\ mode' = "init"
    /\ params' = 0
    /\ pc' = "for"
    /\ UNCHANGED <<notebookFixed, epoch, step, ckpt, log>>
    /\ UNCHANGED <<itos, max_len, smiles, sequence, input_seq, output_tokens, decoded_smiles>>
    /\ UNCHANGED <<runVars, evalVars, attnVars, fwdVars, speVars, plotVars>>

\* for epoch in range(num_epochs): model.train(); epoch_train_loss = 0
TrainModelEpoch ==
    /\ pc = "for"
    /\ ~ForExhausted(epoch, epochs)
    /\ mode' = "train"
    /\ pc' = "train"
    /\ step' = 0
    /\ UNCHANGED <<notebookFixed, epoch, params, ckpt, log>>
    /\ UNCHANGED <<itos, max_len, smiles, sequence, input_seq, output_tokens, decoded_smiles>>
    /\ UNCHANGED <<runVars, evalVars, attnVars, fwdVars, speVars, plotVars>>

\* one sample of the training pass: optimizer.zero_grad(), smiles_to_padded_tensor,
\* model(input_seq) with dropout, criterion, loss.backward(), optimizer.step()
TrainSample ==
    /\ pc = "train"
    /\ ~ListExhausted(step, train_smiles)
    /\ LET s == train_smiles[step + 1]
           seq == pad_sequence(encode_smiles_to_indices(s), max_len)
       IN  /\ smiles' = s
           /\ sequence' = encode_smiles_to_indices(s)
           /\ input_seq' = seq
           /\ fed' = fed \cup {seq}
           /\ \E d \in [DOMAIN seq -> DropoutDraws] :
                 /\ drop' = d
                 /\ loss' = CrossEntropyLoss(Forward(seq, d, params), seq)
    /\ calls' = [zero_grad |-> calls.zero_grad + 1,
                 backward |-> calls.backward + 1,
                 step |-> calls.step + 1]
    /\ params' = params + 1
    /\ step' = step + 1
    /\ UNCHANGED <<notebookFixed, pc, epoch, mode, ckpt, log>>
    /\ UNCHANGED <<itos, max_len, output_tokens, decoded_smiles>>
    /\ UNCHANGED <<train_smiles, val_smiles, evalVars, attnVars, fwdVars, speVars, plotVars>>

\* end of the training pass: model.eval(); with torch.no_grad(): epoch_val_loss = 0
TrainModelValidation ==
    /\ pc = "train"
    /\ ListExhausted(step, train_smiles)
    /\ mode' = "eval"
    /\ pc' = "validate"
    /\ step' = 0
    /\ UNCHANGED <<notebookFixed, epoch, params, ckpt, log>>
    /\ UNCHANGED <<itos, max_len, smiles, sequence, input_seq, output_tokens, decoded_smiles>>
    /\ UNCHANGED <<runVars, evalVars, attnVars, fwdVars, speVars, plotVars>>

\* Mutant of ValSample: the validation pass also steps the optimizer.
ValSampleWithStep ==
    /\ pc = "validate"
    /\ ~ListExhausted(step, val_smiles)
    /\ LET s == val_smiles[step + 1]
           seq == pad_sequence(encode_smiles_to_indices(s), max_len)
       IN  /\ smiles' = s
           /\ sequence' = encode_smiles_to_indices(s)
           /\ input_seq' = seq
           /\ fed' = fed \cup {seq}
           /\ drop' = NoDropout(seq)
           /\ loss' = CrossEntropyLoss(Forward(seq, NoDropout(seq), params), seq)
    /\ calls' = [calls EXCEPT !.step = calls.step + 1]
    /\ params' = params + 1
    /\ step' = step + 1
    /\ UNCHANGED <<notebookFixed, pc, epoch, mode, ckpt, log>>
    /\ UNCHANGED <<itos, max_len, output_tokens, decoded_smiles>>
    /\ UNCHANGED <<train_smiles, val_smiles, evalVars, attnVars, fwdVars, speVars, plotVars>>

\* one sample of the validation pass: smiles_to_padded_tensor, model(input_seq)
\* in eval mode, criterion
ValSample ==
    /\ pc = "validate"
    /\ ~ListExhausted(step, val_smiles)
    /\ LET s == val_smiles[step + 1]
           seq == pad_sequence(encode_smiles_to_indices(s), max_len)
       IN  /\ smiles' = s
           /\ sequence' = encode_smiles_to_indices(s)
           /\ input_seq' = seq
           /\ fed' = fed \cup {seq}
           /\ drop' = NoDropout(seq)
           /\ loss' = CrossEntropyLoss(Forward(seq, NoDropout(seq), params), seq)
    /\ step' = step + 1
    /\ UNCHANGED <<notebookFixed, pc, epoch, mode, params, ckpt, log>>
    /\ UNCHANGED <<itos, max_len, output_tokens, decoded_smiles>>
    /\ UNCHANGED <<train_smiles, val_smiles, calls, evalVars, attnVars, fwdVars, speVars, plotVars>>

\* print(f"Epoch {epoch+1}, Training Loss: ..., Validation Loss: ..."), then
\* the next round of the for loop
TrainModelReport ==
    /\ pc = "validate"
    /\ ListExhausted(step, val_smiles)
    /\ log' = Append(log, <<"epoch", epoch + 1>>)
    /\ epoch' = epoch + 1
    /\ pc' = "for"
    /\ UNCHANGED <<notebookFixed, step, mode, params, ckpt>>
    /\ UNCHANGED <<itos, max_len, smiles, sequence, input_seq, output_tokens, decoded_smiles>>
    /\ UNCHANGED <<runVars, evalVars, attnVars, fwdVars, speVars, plotVars>>

\* range(num_epochs) is exhausted: train_model returns
TrainModelReturn ==
    /\ pc = "for"
    /\ ForExhausted(epoch, epochs)
    /\ pc' = "returned"
    /\ UNCHANGED <<notebookFixed, epoch, step, mode, params, ckpt, log>>
    /\ UNCHANGED <<itos, max_len, smiles, sequence, input_seq, output_tokens, decoded_smiles>>
    /\ UNCHANGED <<runVars, evalVars, attnVars, fwdVars, speVars, plotVars>>

\* torch.save(model.state_dict(), "models/SMILES_ENCODER_50k.pth")
SaveModel ==
    /\ pc = "returned"
    /\ ckpt' = <<params>>
    /\ pc' = "saved"
    /\ UNCHANGED <<notebookFixed, epoch, step, mode, params, log>>
    /\ UNCHANGED <<itos, max_len, smiles, sequence, input_seq, output_tokens, decoded_smiles>>
    /\ UNCHANGED <<runVars, evalVars, attnVars, fwdVars, speVars, plotVars>>

\* evaluate_reconstruction(smiles_list, print_mismatches): the four counters
\* are set to 0
EvaluateReconstruction ==
    /\ pc \in {"saved", "evaluated"}
    /\ \E l \in EvaluationLists : smiles_list' = l
    /\ exact' = << >>
    /\ correct_count' = 0
    /\ mismatched_count' = 0
    /\ total_levenshtein_distance' = 0
    /\ total_mismatched_smiles_length' = 0
    /\ result' = << >>
    /\ step' = 0
    /\ smiles' = << >>
    /\ sequence' = << >>
    /\ input_seq' = << >>
    /\ output_tokens' = << >>
    /\ decoded_smiles' = << >>
    /\ pc' = "evaluate"
    /\ UNCHANGED <<notebookFixed, epoch, mode, params, ckpt, log>>
    /\ UNCHANGED <<itos, max_len>>
    /\ UNCHANGED <<runVars, attnVars, fwdVars, speVars, plotVars>>

\* one round of the loop of evaluate_reconstruction: smiles_to_padded_tensor,
\* decode_sequence (model.eval(), forward under no_grad, argmax, decoding; of
\* its locals only the returned string is kept), comparison and counters
EvaluateString ==
    /\ pc = "evaluate"
    /\ ~ListExhausted(step, smiles_list)
    /\ LET s == smiles_list[step + 1]
           seq == pad_sequence(encode_smiles_to_indices(s), max_len)
       IN  /\ smiles' = s
           /\ sequence' = encode_smiles_to_indices(s)
           /\ input_seq' = seq
           /\ \E d \in {DecodeOutput(out) : out \in ModelOutputs(seq)} :
                 decoded_smiles' = d
    /\ mode' = "eval"
    /\ exact' = Append(exact, smiles' = decoded_smiles')
    /\ IF IsExactMatch(smiles', decoded_smiles')
         THEN /\ correct_count' = correct_count + 1
              /\ UNCHANGED <<mismatched_count, total_levenshtein_distance,
                             total_mismatched_smiles_length>>
         ELSE /\ mismatched_count' = mismatched_count + 1
              /\ total_levenshtein_distance' =
                    total_levenshtein_distance + Levenshtein(Upper(smiles'), decoded_smiles')
              /\ total_mismatched_smiles_length' =
                    total_mismatched_smiles_length + Len(smiles')
              /\ UNCHANGED correct_count
    /\ step' = step + 1
    /\ UNCHANGED <<notebookFixed, pc, epoch, params, ckpt, log>>
    /\ UNCHANGED <<itos, max_len, output_tokens>>
    /\ UNCHANGED <<smiles_list, result, runVars, attnVars, fwdVars, speVars, plotVars>>

\* after the loop: total_count, accuracy, the two means, return
EvaluateReturn ==
    /\ pc = "evaluate"
    /\ ListExhausted(step, smiles_list)
    /\ LET total_count == Len(smiles_list)
           accuracy == Times(TrueDiv(correct_count, total_count), 100)
           average_levenshtein_distance ==
               MeanOverMismatches(total_levenshtein_distance, mismatched_count)
           average_mismatched_smiles_length ==
               MeanOverMismatches(total_mismatched_smiles_length, mismatched_count)
       IN  IF accuracy.ok /\ average_levenshtein_distance.ok
                /\ average_mismatched_smiles_length.ok
             THEN /\ result' = <<accuracy, average_levenshtein_distance,
                                 average_mismatched_smiles_length>>
                  /\ pc' = "evaluated"
             ELSE /\ result' = << >>
                  /\ pc' = "ZeroDivisionError"
    /\ UNCHANGED <<notebookFixed, epoch, step, mode, params, ckpt, log>>
    /\ UNCHANGED <<itos, max_len, smiles, sequence, input_seq, output_tokens, decoded_smiles>>
    /\ UNCHANGED <<smiles_list, exact, correct_count, mismatched_count,
                   total_levenshtein_distance, total_mismatched_smiles_length>>
    /\ UNCHANGED <<runVars, attnVars, fwdVars, speVars, plotVars>>

NotebookNext ==
    \/ TrainTestSplit
    \/ BuildVocabulary
    \/ ConstructModel
    \/ TrainModelEpoch
    \/ TrainSample
    \/ TrainModelValidation
    \/ ValSample
    \/ TrainModelReport
    \/ TrainModelReturn
    \/ SaveModel
    \/ EvaluateReconstruction
    \/ EvaluateString
    \/ EvaluateReturn

NotebookSpec == NotebookInit /\ [][NotebookNext]_vars

(***************************************************************************)
(* MultiHeadAttention.__init__ (STEP02_Transformer, STEP02_Eval)           *)
(***************************************************************************)
MaxEmbedDim == 12     \* embed_dim 1..MaxEmbedDim
MaxNumHeads == 4      \* num_heads 0..MaxNumHeads
MaxBatchSize == 3     \* batch_size 1..MaxBatchSize
MaxSeqLength == 2     \* seq_length 1..MaxSeqLength

\* Mutant of DivisibleByHeads: the assertion is dropped.
DivisibleUnchecked(e, h, hd) == TRUE

\* assert self.head_dim * num_heads == self.embed_dim
DivisibleByHeads(e, h, hd) == hd * h = e

AttentionInit ==
    /\ embed_dim \in 1..MaxEmbedDim
    /\ num_heads \in 0..MaxNumHeads
    /\ head_dim = 0
    /\ attention = "none"
    /\ FwdIdle
    /\ TrainIdle
    /\ TokIdle
    /\ RunIdle
    /\ EvalIdle
    /\ SpeIdle
    /\ PlotIdle

\* MultiHeadAttention(embed_dim, num_heads): head_dim = embed_dim // num_heads,
\* the assertion, then the projections
ConstructAttention ==
    /\ attention = "none"
    /\ IF num_heads = 0
         THEN /\ attention' = "ZeroDivisionError"
              /\ UNCHANGED head_dim
         ELSE /\ head_dim' = embed_dim \div num_heads
              /\ attention' = IF DivisibleByHeads(embed_dim, num_heads, head_dim')
                                THEN "constructed" ELSE "AssertionError"
    /\ UNCHANGED <<embed_dim, num_heads, fwdVars>>
    /\ UNCHANGED <<trainVars, tokVars, runVars, evalVars, speVars, plotVars>>

\* Offset of the element at index idx (0-based) of a contiguous tensor of
\* the given shape (row-major), and the index at an offset.
RECURSIVE Ravel(_, _)
Ravel(idx, shape) ==
    IF idx = << >> THEN 0
    ELSE Ravel(SubSeq(idx, 1, Len(idx) - 1), SubSeq(shape, 1, Len(shape) - 1))
             * shape[Len(shape)] + idx[Len(idx)]

RECURSIVE Unravel(_, _)
Unravel(off, shape) ==
    IF shape = << >> THEN << >>
    ELSE Append(Unravel(off \div shape[Len(shape)], SubSeq(shape, 1, Len(shape) - 1)),
                off % shape[Len(shape)])

\* attn_output after .transpose(-1, -2).contiguous(): shape
\* (num_heads, batch_size, head_dim, seq_length). qkv.view(batch_size,
\* seq_length, num_heads, 3 * head_dim).permute(2, 0, 3, 1) puts the sample
\* at the second index, and the two matmuls and the softmax work on the last
\* two dimensions: the element at (h, b, d, s) is computed from sample b.
AttnOutputShape(B, S) == <<num_heads, B, head_dim, S>>

SampleOfAttnOutput(idx) == idx[2]

\* attn_output.contiguous().view(batch_size, seq_length, embed_dim): the
\* element (i, j, e) of the view is the element of attn_output at the same
\* offset. o_proj and dropout work on the last dimension, position by
\* position.
ViewShape(B, S) == <<B, S, embed_dim>>

SamplesOfRow(i, B, S) ==
    {SampleOfAttnOutput(Unravel(Ravel(<<i, j, e>>, ViewShape(B, S)), AttnOutputShape(B, S))) :
        j \in 0..(S - 1), e \in 0..(embed_dim - 1)}

\* MultiHeadAttention.forward(x), x of size (batch_size, seq_length, embed_dim)
AttentionForward ==
    /\ attention = "constructed"
    /\ \E B \in 1..MaxBatchSize : \E S \in 1..MaxSeqLength :
           /\ batch_size' = B
           /\ seq_length' = S
           /\ rows' = [i \in 1..B |-> SamplesOfRow(i - 1, B, S)]
    /\ UNCHANGED <<embed_dim, num_heads, head_dim, attention>>
    /\ UNCHANGED <<trainVars, tokVars, runVars, evalVars, speVars, plotVars>>

AttentionNext ==
    \/ ConstructAttention
    \/ AttentionForward

AttentionSpec == AttentionInit /\ [][AttentionNext]_vars

(***************************************************************************)
(* scatter_plot (STEP02_Eval.ipynb)                                        *)
(***************************************************************************)
MaxGenes == 3         \* x_original.shape[1] in 1..MaxGenes, num_genes in 0..MaxGenes
MaxHighlights == 2    \* length of highlight_gene_indices

\* highlight_gene_indices: None (the default) or a list of indices
None == [given |-> FALSE, list |-> << >>]
List(l) == [given |-> TRUE, list |-> l]

\* The loaders scatter_plot is called with: batches named by their number.
DataLoaders == {<< >>, <<1>>, <<1, 2>>}

\* gene_idx in gene_indices, on a numpy array
InArray(x, array) == \E i \in DOMAIN array : array[i] = x

\* np.random.choice(n, size, replace=False): every arrangement of size
\* distinct values of 0..n-1
Choices(n, size) ==
    {c \in [1..size -> 0..(n - 1)] : \A i, j \in 1..size : i # j => c[i] # c[j]}

\* Mutant of AppendHighlighted: every highlighted index is appended.
AppendEveryHighlighted(array, highlight) == array \o highlight

\* for gene_idx in highlight_gene_indices:
\*     if gene_idx not in gene_indices: gene_indices = np.append(gene_indices, gene_idx)
RECURSIVE AppendHighlighted(_, _)
AppendHighlighted(array, highlight) ==
    IF highlight = << >> THEN array
    ELSE AppendHighlighted(IF InArray(Head(highlight), array)
                             THEN array
                             ELSE Append(array, Head(highlight)),
                           Tail(highlight))

\* The genes scattered by one subplot's loop: all of gene_indices, or those
\* before the first index that is not a column of x_original.
RECURSIVE Scattered(_, _)
Scattered(array, n) ==
    IF array = << >> \/ Head(array) >= n THEN << >>
    ELSE <<Head(array)>> \o Scattered(Tail(array), n)

PlotInit ==
    /\ data_loader \in DataLoaders
    /\ genes \in 1..MaxGenes
    /\ num_genes \in 0..MaxGenes
    /\ highlight_gene_indices \in
           {None} \cup {List(l) : l \in UNION {[1..k -> 0..genes] : k \in 0..MaxHighlights}}
    /\ plot = "called"
    /\ batches1 = << >>
    /\ batches2 = << >>
    /\ gene_indices = << >>
    /\ plotted1 = << >>
    /\ plotted2 = << >>
    /\ TrainIdle
    /\ TokIdle
    /\ RunIdle
    /\ EvalIdle
    /\ AttnIdle
    /\ FwdIdle
    /\ SpeIdle

\* for batch in data_loader: both models on x_batch, then break
FirstBatch ==
    /\ plot = "called"
    /\ IF data_loader = << >>
         THEN UNCHANGED <<batches1, batches2>>
         ELSE /\ batches1' = Append(batches1, Head(data_loader))
              /\ batches2' = Append(batches2, Head(data_loader))
    /\ plot' = "batch"
    /\ UNCHANGED <<data_loader, genes, num_genes, highlight_gene_indices,
                   gene_indices, plotted1, plotted2>>
    /\ UNCHANGED <<trainVars, tokVars, runVars, evalVars, attnVars, fwdVars, speVars>>

\* gene_indices = np.random.choice(x_original.shape[1], num_genes, replace=False)
DrawGenes ==
    /\ plot = "batch"
    /\ IF data_loader = << >>
         THEN /\ plot' = "UnboundLocalError"
              /\ UNCHANGED gene_indices
         ELSE IF num_genes > genes
                THEN /\ plot' = "ValueError"
                     /\ UNCHANGED gene_indices
                ELSE /\ gene_indices' \in Choices(genes, num_genes)
                     /\ plot' = "drawn"
    /\ UNCHANGED <<data_loader, genes, num_genes, highlight_gene_indices,
                   batches1, batches2, plotted1, plotted2>>
    /\ UNCHANGED <<trainVars, tokVars, runVars, evalVars, attnVars, fwdVars, speVars>>

\* if highlight_gene_indices is not None: the loop appending the missing ones
AppendHighlights ==
    /\ plot = "drawn"
    /\ gene_indices' = IF highlight_gene_indices.given
                         THEN AppendHighlighted(gene_indices, highlight_gene_indices.list)
                         ELSE gene_indices
    /\ plot' = "highlighted"
    /\ UNCHANGED <<data_loader, genes, num_genes, highlight_gene_indices,
                   batches1, batches2, plotted1, plotted2>>
    /\ UNCHANGED <<trainVars, tokVars, runVars, evalVars, attnVars, fwdVars, speVars>>

\* highlight_colors = cm.Dark2(range(len(highlight_gene_indices))), the dict
AssignColors ==
    /\ plot = "highlighted"
    /\ plot' = IF highlight_gene_indices.given THEN "colors" ELSE "TypeError"
    /\ UNCHANGED <<data_loader, genes, num_genes, highlight_gene_indices,
                   batches1, batches2, gene_indices, plotted1, plotted2>>
    /\ UNCHANGED <<trainVars, tokVars, runVars, evalVars, attnVars, fwdVars, speVars>>

\* the first subplot: plt.scatter(x_original[:, gene_idx], x_reconstructed1[:, gene_idx])
ScatterModel1 ==
    /\ plot = "colors"
    /\ plotted1' = Scattered(gene_indices, genes)
    /\ plot' = IF plotted1' = gene_indices THEN "subplot1" ELSE "IndexError"
    /\ UNCHANGED <<data_loader, genes, num_genes, highlight_gene_indices,
                   batches1, batches2, gene_indices, plotted2>>
    /\ UNCHANGED <<trainVars, tokVars, runVars, evalVars, attnVars, fwdVars, speVars>>

\* the second subplot: plt.scatter(x_original[:, gene_idx], x_reconstructed2[:, gene_idx])
ScatterModel2 ==
    /\ plot = "subplot1"
    /\ plotted2' = Scattered(gene_indices, genes)
    /\ plot' = IF plotted2' = gene_indices THEN "subplot2" ELSE "IndexError"
    /\ UNCHANGED <<data_loader, genes, num_genes, highlight_gene_indices,
                   batches1, batches2, gene_indices, plotted1>>
    /\ UNCHANGED <<trainVars, tokVars, runVars, evalVars, attnVars, fwdVars, speVars>>

\* plt.tight_layout(), plt.savefig(...), plt.show()
SaveFigure ==
    /\ plot = "subplot2"
    /\ plot' = "saved"
    /\ UNCHANGED <<data_loader, genes, num_genes, highlight_gene_indices,
                   batches1, batches2, gene_indices, plotted1, plotted2>>
    /\ UNCHANGED <<trainVars, tokVars, runVars, evalVars, attnVars, fwdVars, speVars>>

PlotNext ==
    \/ FirstBatch
    \/ DrawGenes
    \/ AppendHighlights
    \/ AssignColors
    \/ ScatterModel1
    \/ ScatterModel2
    \/ SaveFigure

PlotSpec == PlotInit /\ [][PlotNext]_vars

(***************************************************************************)
(* learn_SPE (the call in part_000), as the pair-merge algorithm of the    *)
(* specification, and the vocabulary file read by part_001                 *)
(***************************************************************************)
MaxMinFrequency == 3  \* min_frequency 1..MaxMinFrequency
MaxSymbols == 3       \* num_symbols (the number of merges asked for) 1..MaxSymbols

ScenarioCorpus == << <<"C", "C", "O">>, <<"C", "C", "N">>, <<"C", "C", "O", "C", "C">> >>

OverlapCorpus ==
    << <<"C", "C">>, <<"C", "C">>, <<"C", "O">>, <<"C", "C", "O">>, <<"C", "C", "O">> >>

\* The corpora learn_SPE is run on.
SpeCorpora ==
    { ScenarioCorpus,
      OverlapCorpus,
      << <<"C", "O">>, <<"O", "C", "C">> >>,
      << <<"C", "C", "C">>, <<"C", "C">> >>,
      << <<"C", "O", "C", "O">>, <<"C", "C", "O">>, <<"N">> >> }

\* each string as a sequence of atomic symbols (single characters)
AtomSymbols(s) == [i \in DOMAIN s |-> <<s[i]>>]

\* the adjacent symbol pairs of the corpus
AdjacentPairs(ws) ==
    UNION {{<<ws[k][i], ws[k][i + 1]>> : i \in 1..(Len(ws[k]) - 1)} : k \in DOMAIN ws}

OccurrencesOfPair(w, pair) ==
    Cardinality({i \in 1..(Len(w) - 1) : w[i] = pair[1] /\ w[i + 1] = pair[2]})

\* Mutant of PairCount: the number of strings the pair occurs in.
RECURSIVE PairCountPerString(_, _)
PairCountPerString(ws, pair) ==
    IF ws = << >> THEN 0
    ELSE (IF OccurrencesOfPair(Head(ws), pair) > 0 THEN 1 ELSE 0)
             + PairCountPerString(Tail(ws), pair)

\* frequency of an adjacent symbol pair across the whole corpus
RECURSIVE PairCount(_, _)
PairCount(ws, pair) ==
    IF ws = << >> THEN 0
    ELSE OccurrencesOfPair(Head(ws), pair) + PairCount(Tail(ws), pair)

\* merge all occurrences of the pair in one string, left to right
RECURSIVE MergePair(_, _)
MergePair(w, pair) ==
    IF Len(w) < 2 THEN w
    ELSE IF w[1] = pair[1] /\ w[2] = pair[2]
           THEN <<pair[1] \o pair[2]>> \o MergePair(SubSeq(w, 3, Len(w)), pair)
           ELSE <<Head(w)>> \o MergePair(Tail(w), pair)

\* a string segmented by the merges, applied in rank order
RECURSIVE ApplyMerges(_, _)
ApplyMerges(w, ms) ==
    IF ms = << >> THEN w ELSE ApplyMerges(MergePair(w, Head(ms)), Tail(ms))

\* the pairs with the highest frequency
MostFrequentPairs(ws) ==
    {p \in AdjacentPairs(ws) : \A q \in AdjacentPairs(ws) : PairCount(ws, q) <= PairCount(ws, p)}

\* the pair selected next can be merged: the target size is not reached and
\* the highest frequency is not below the threshold
CanMerge ==
    /\ Len(merges) < num_symbols
    /\ \E p \in MostFrequentPairs(words) : PairCount(words, p) >= min_frequency

LearnInit ==
    /\ smiles_training \in SpeCorpora
    /\ min_frequency \in 1..MaxMinFrequency
    /\ num_symbols \in 1..MaxSymbols
    /\ words = [k \in DOMAIN smiles_training |-> AtomSymbols(smiles_training[k])]
    /\ merges = << >>
    /\ frequencies = << >>
    /\ fragments = << >>
    /\ spe_fragments = << >>
    /\ custom_tokens = << >>
    /\ itos = << >>
    /\ max_len = 0
    /\ tpc = "learn"
    /\ smiles = << >>
    /\ sequence = << >>
    /\ input_seq = << >>
    /\ output_tokens = << >>
    /\ decoded_smiles = << >>
    /\ TrainIdle
    /\ RunIdle
    /\ EvalIdle
    /\ AttnIdle
    /\ FwdIdle
    /\ PlotIdle

\* one round: select a pair with the highest frequency, merge all its
\* occurrences, add it to the vocabulary with its rank
MergeMostFrequent ==
    /\ tpc = "learn"
    /\ CanMerge
    /\ \E p \in MostFrequentPairs(words) :
           /\ merges' = Append(merges, p)
           /\ frequencies' = Append(frequencies, PairCount(words, p))
           /\ words' = [k \in DOMAIN words |-> MergePair(words[k], p)]
    /\ UNCHANGED <<min_frequency, num_symbols, fragments, spe_fragments>>
    /\ UNCHANGED tokVars
    /\ UNCHANGED <<trainVars, runVars, evalVars, attnVars, fwdVars, plotVars>>

\* the target size is reached or no pair meets the threshold: the ranked
\* token list is written to the vocabulary file
WriteVocabularyFile ==
    /\ tpc = "learn"
    /\ ~CanMerge
    /\ tpc' = "file"
    /\ UNCHANGED <<custom_tokens, smiles_training, itos, max_len, smiles, sequence,
                   input_seq, output_tokens, decoded_smiles>>
    /\ UNCHANGED <<trainVars, runVars, evalVars, attnVars, fwdVars, speVars, plotVars>>

\* custom_tokens = [line.strip().split()[0] for line in f]: the token of
\* each line, in file order; then the vocab and max_len over the corpus
ReadVocabularyFile ==
    /\ tpc = "file"
    /\ custom_tokens' = [i \in DOMAIN merges |-> merges[i][1] \o merges[i][2]]
    /\ itos' = BuildVocab(smiles_training, custom_tokens')
    /\ max_len' = MaxEncodedLen(smiles_training, custom_tokens')
    /\ tpc' = "vocab"
    /\ UNCHANGED <<smiles_training, smiles, sequence, input_seq, output_tokens,
                   decoded_smiles>>
    /\ UNCHANGED <<trainVars, runVars, evalVars, attnVars, fwdVars, speVars, plotVars>>

\* custom_tokenizer(smiles), next to the segmentation by the merges
Segment ==
    /\ tpc \in {"vocab", "segmented"}
    /\ \E s \in StringsUpTo(MaxStr) \cup {smiles_training[i] : i \in DOMAIN smiles_training} :
           /\ smiles' = s
           /\ fragments' = custom_tokenizer(s)
           /\ spe_fragments' = ApplyMerges(AtomSymbols(s), merges)
    /\ tpc' = "segmented"
    /\ UNCHANGED <<min_frequency, num_symbols, words, merges, frequencies>>
    /\ UNCHANGED <<custom_tokens, smiles_training, itos, max_len, sequence, input_seq,
                   output_tokens, decoded_smiles>>
    /\ UNCHANGED <<trainVars, runVars, evalVars, attnVars, fwdVars, plotVars>>

VocabularyNext ==
    \/ MergeMostFrequent
    \/ WriteVocabularyFile
    \/ ReadVocabularyFile
    \/ Segment

VocabularySpec == LearnInit /\ [][VocabularyNext]_vars

(***************************************************************************)
(* Early stopping, stated on the history of validation losses              *)
(***************************************************************************)
Ended == {"after", "save", "finished"}

\* v improves on the best b by more than d (on floats).
ImprovesByMoreThan(v, b, d) ==
    /\ v # Inf
    /\ \/ b = Inf
       \/ b - v > d

\* v improves on the best b, and by at least d.
ImprovesByAtLeast(v, b, d) ==
    /\ v # Inf
    /\ \/ b = Inf
       \/ (v < b /\ b - v >= d)

\* The best loss after the losses h: the last loss of h that improved on the
\* best before it by more than d.
RECURSIVE BestOf(_, _)
BestOf(h, d) ==
    IF h = << >> THEN Inf
    ELSE LET b == BestOf(SubSeq(h, 1, Len(h) - 1), d)
             v == h[Len(h)]
         IN  IF ImprovesByMoreThan(v, b, d) THEN v ELSE b

ImprovingEpochs(h, d) ==
    {k \in 1..Len(h) : ImprovesByMoreThan(h[k], BestOf(SubSeq(h, 1, k - 1), d), d)}

SetMax(S) == CHOOSE x \in S : \A y \in S : y <= x

\* The last epoch (1-based) whose loss improved on the best; 0 if none did.
LastImprovingEpoch(h, d) ==
    IF ImprovingEpochs(h, d) = {} THEN 0 ELSE SetMax(ImprovingEpochs(h, d))

EpochsRun == Len(val_losses)

\* C1: in the early-stopping loops, when e is the last epoch whose validation
\* loss improved on the best (by more than min_delta), no epoch after epoch
\* e + patience is run, and when e + patience <= epochs the run has ended by
\* early stopping at the end of epoch e + patience exactly.
C1_StopsAtLastImprovementPlusPatience ==
    HasEarlyStopping =>
        LET e == LastImprovingEpoch(val_losses, min_delta)
        IN  e >= 1 =>
              /\ EpochsRun <= e + patience
              /\ (pc \in Ended /\ e + patience <= epochs) =>
                    /\ EpochsRun = e + patience
                    /\ log # << >>
                    /\ \E i \in 1..Len(log) : log[i] = <<"early stopping", e + patience>>

\* Witness of C1: a finished early-stopped run with patience 2 whose counter
\* was incremented, reset by a later improvement at epoch e >= 2, and then ran
\* out exactly patience epochs later.
C1_Witness ==
    /\ HasEarlyStopping
    /\ pc = "finished"
    /\ patience >= 2
    /\ LET e == LastImprovingEpoch(val_losses, min_delta)
       IN  /\ e >= 2
           /\ EpochsRun = e + patience
           /\ \E k \in 1..(e - 1) : k \notin ImprovingEpochs(val_losses, min_delta)

\* C2 (as claimed): after a run of an early-stopping notebook has ended, the
\* checkpoint file holds the parameters of the last epoch whose validation
\* loss improved on the best.
C2_BestCheckpointRetained ==
    (HasEarlyStopping /\ pc = "finished") =>
        LET e == LastImprovingEpoch(val_losses, min_delta)
        IN  e >= 1 => ckpt = <<saved_epochs[e]>>

\* C3 (as claimed): the early-stopping block resets the counter, records the
\* new best and writes a checkpoint when the loss improves on the best by at
\* least min_delta (exactly min_delta included), and otherwise increments the
\* counter and leaves the best loss and the checkpoint alone.
C3_ResetOnImprovementOfAtLeastMinDelta ==
    [][pc = "earlystop" =>
          IF ImprovesByAtLeast(epoch_val_loss, best_val_loss, min_delta)
            THEN /\ patience_counter' = 0
                 /\ best_val_loss' = epoch_val_loss
                 /\ ckpt' = <<params>>
            ELSE /\ patience_counter' = patience_counter + 1
                 /\ best_val_loss' = best_val_loss
                 /\ ckpt' = ckpt]_vars

\* The first epoch at which an early-stopping rule with patience p would stop
\* on the losses h; 0 if it would not stop.
WouldStopAt(h, p, d) ==
    LET S == {k \in 1..Len(h) : k - LastImprovingEpoch(SubSeq(h, 1, k), d) >= p}
    IN  IF S = {} THEN 0 ELSE CHOOSE k \in S : \A j \in S : k <= j

ExitByBudget == ForExhausted(epoch, epochs)
ExitByPatience == HasEarlyStopping /\ PatienceReached(patience_counter, patience)

\* C5: every training loop terminates, after at most epochs epochs, and by
\* exactly one of: the epoch budget is exhausted, the patience counter has
\* reached patience.
C5_TerminatesByBudgetOrPatience ==
    /\ [](/\ EpochsRun <= epochs
          /\ pc \in Ended => (ExitByBudget # ExitByPatience)
          /\ pc \notin Ended => (~ExitByPatience /\ EpochsRun <= epoch + 1))
    /\ <>(pc = "finished")

\* Witness of C5: runs of both kinds have ended.
C5_Witness ==
    /\ pc = "finished"
    /\ ExitByPatience
    /\ EpochsRun < epochs

C5_WitnessBudget ==
    /\ pc = "finished"
    /\ ExitByBudget
    /\ HasEarlyStopping
    /\ patience_counter >= 1

(***************************************************************************)
(* Encode, pad and decode                                                  *)
(***************************************************************************)
Encoded == tpc \in {"padded", "decoded"}

IdentityOutput == tpc = "decoded" /\ output_tokens = input_seq

\* C6 (as claimed): pad_sequence never returns a sequence longer than
\* max_len (an encoded string longer than max_len is rejected).
C6_PadNeverExceedsMaxLen ==
    Encoded => Len(input_seq) <= max_len

\* C7: when the encoded string is no longer than max_len, the padded sequence
\* has length exactly max_len, starts with the encoded string unchanged, and
\* every element after it is the pad id.
C7_PadToExactLength ==
    (Encoded /\ Len(sequence) <= max_len) =>
        /\ Len(input_seq) = max_len
        /\ SubSeq(input_seq, 1, Len(sequence)) = sequence
        /\ \A i \in (Len(sequence) + 1)..Len(input_seq) :
              lookup_token(input_seq[i]) = PAD

\* Witness of C7: a non-empty string was encoded and at least two pad ids
\* were appended.
C7_Witness ==
    /\ Encoded
    /\ smiles # << >>
    /\ Len(sequence) + 2 <= max_len
    /\ Len(input_seq) = max_len

\* C8: decoding an output followed by n pad ids gives the same string as
\* decoding the output alone.
C8_DecodeIgnoresTrailingPad ==
    tpc = "decoded" =>
        \A n \in 0..MaxExtraPad :
            DecodeOutput(output_tokens \o ListRepeat(VocabIndex(PAD), n)) = decoded_smiles

\* Witness of C8: an output without end marker (so the appended pad ids are
\* reached by the decoding loop) that decodes to a non-empty string.
C8_Witness ==
    /\ tpc = "decoded"
    /\ \A i \in DOMAIN output_tokens : lookup_token(output_tokens[i]) # EOS
    /\ \E i \in DOMAIN output_tokens : lookup_token(output_tokens[i]) \notin SpecialTokens
    /\ decoded_smiles # << >>

\* C9: the encoding of a string is the start-marker id, the vocabulary id of
\* each of its tokens in order (the unknown id for a token absent from the
\* vocabulary), and the end-marker id.
C9_EncodeStructure ==
    Encoded =>
        LET toks == custom_tokenizer(smiles)
        IN  /\ Len(sequence) = Len(toks) + 2
            /\ lookup_token(sequence[1]) = SOS
            /\ lookup_token(sequence[Len(sequence)]) = EOS
            /\ \A i \in 1..Len(toks) :
                  lookup_token(sequence[i + 1]) = IF InVocab(toks[i]) THEN toks[i] ELSE UNK

\* Witness of C9: a string with a token of the vocabulary and a token
\* absent from it has been encoded.
C9_Witness ==
    /\ Encoded
    /\ LET toks == custom_tokenizer(smiles)
       IN  /\ \E i \in 1..Len(toks) : InVocab(toks[i])
           /\ \E i \in 1..Len(toks) : ~InVocab(toks[i])

\* C10 (as claimed): with an empty token list, every string decodes back to
\* itself when the model output equals its input.
C10_RoundTripEveryString ==
    (IdentityOutput /\ custom_tokens = << >>) => decoded_smiles = smiles

\* C10 (amended): with an empty token list a string is a single token; when
\* the model output equals its input, a string that is a token of the
\* vocabulary (a string of the training corpus) decodes back to itself, and
\* any other non-empty string decodes to "<unk>".
C10_RoundTripKnownStrings ==
    (IdentityOutput /\ custom_tokens = << >>) =>
        /\ custom_tokenizer(smiles) = (IF smiles = << >> THEN << >> ELSE <<smiles>>)
        /\ (smiles = << >> \/ InVocab(smiles)) => decoded_smiles = smiles
        /\ (smiles # << >> /\ ~InVocab(smiles)) => decoded_smiles = UNK

\* Witness of C10: a non-empty corpus string went through encode, an
\* identity output and decode, with an empty token list.
C10_Witness ==
    /\ IdentityOutput
    /\ custom_tokens = << >>
    /\ smiles # << >>
    /\ InVocab(smiles)
    /\ decoded_smiles = smiles

(***************************************************************************)
(* evaluate_reconstruction                                                 *)
(***************************************************************************)
EvaluationOver == pc \in {"evaluated", "ZeroDivisionError"}

AllExact == \A i \in DOMAIN exact : exact[i]

CountOf(b, seq) == Cardinality({i \in DOMAIN seq : seq[i] = b})

C12_EveryStringCountedOnce ==
    /\ []((pc = "evaluate" \/ EvaluationOver) =>
            /\ Len(exact) = step
            /\ correct_count = CountOf(TRUE, exact)
            /\ mismatched_count = CountOf(FALSE, exact)
            /\ correct_count + mismatched_count = step
            /\ pc = "evaluated" =>
                  /\ result[1].num * Len(smiles_list) = 100 * correct_count * result[1].den
                  /\ result[2].num * mismatched_count
                        = total_levenshtein_distance * result[2].den
                  /\ result[3].num * mismatched_count
                        = total_mismatched_smiles_length * result[3].den)
    /\ [][(pc = "evaluate" /\ step' = step + 1) =>
            IF smiles' = decoded_smiles'
              THEN /\ total_levenshtein_distance' = total_levenshtein_distance
                   /\ total_mismatched_smiles_length' = total_mismatched_smiles_length
              ELSE /\ total_levenshtein_distance' = total_levenshtein_distance
                          + Levenshtein(Upper(smiles'), decoded_smiles')
                   /\ total_mismatched_smiles_length' = total_mismatched_smiles_length
                          + Len(smiles')]_vars

\* Witness of C12: an evaluation with a match and a mismatch at a non-zero
\* edit distance has returned.
C12_Witness ==
    /\ pc = "evaluated"
    /\ correct_count >= 1
    /\ mismatched_count >= 1
    /\ total_levenshtein_distance >= 1

(***************************************************************************)
(* decode_sequence                                                         *)
(***************************************************************************)

\* The position of the first end marker of an output, Len + 1 if it has none.
FirstEos(ids) ==
    LET S == {i \in DOMAIN ids : lookup_token(ids[i]) = EOS}
    IN  IF S = {} THEN Len(ids) + 1 ELSE CHOOSE i \in S : \A j \in S : i <= j

\* C13: the decoded string is built from the output tokens strictly before
\* the first end marker and from nothing else: it is the stripped
\* concatenation of those tokens, and any other token at a position after the
\* first end marker gives the same string.
C13_DecodeStopsAtFirstEos ==
    tpc = "decoded" =>
        LET n == FirstEos(output_tokens)
        IN  /\ decoded_smiles =
                  StripSpecials(Join([i \in 1..(n - 1) |-> lookup_token(output_tokens[i])]))
            /\ \A i \in (n + 1)..Len(output_tokens), v \in 0..(Len(itos) - 1) :
                  DecodeOutput([output_tokens EXCEPT ![i] = v]) = decoded_smiles

\* Witness of C13: an output whose first end marker is followed by a token
\* of the string has been decoded to a non-empty string.
C13_Witness ==
    /\ tpc = "decoded"
    /\ decoded_smiles # << >>
    /\ \E i \in DOMAIN output_tokens :
          /\ i > FirstEos(output_tokens)
          /\ lookup_token(output_tokens[i]) \notin SpecialTokens

\* C14 (as claimed): the string returned by decode_sequence contains the
\* text of none of the reserved tokens <pad>, <unk>, <sos>, <eos>.
C14_NoSpecialTokenText ==
    tpc = "decoded" => \A t \in SpecialTokens : ~Contains(decoded_smiles, t)

(***************************************************************************)
(* train_model on the padded sequences                                     *)
(***************************************************************************)

\* The loss of the sequence last fed, had it been padded to length n, with
\* the same parameters and the same dropout draws at the positions it has
\* and the draws more at the others.
LossPaddedTo(n, more) ==
    LET seq == pad_sequence(sequence, n)
        draws == [i \in 1..n |-> IF i <= Len(drop) THEN drop[i] ELSE more[i - Len(drop)]]
    IN  CrossEntropyLoss(Forward(seq, draws, loss[1].logits.params), seq)

\* C15: the loss of a sequence of k ids is the same whether it is padded to
\* k, to max_len or to any greater length (the same draws of dropout at the
\* positions in common), and no pad position enters it: it has one term for
\* each of the k positions and none of its terms is computed from a pad id,
\* so the pad positions give the gradient nothing either.
C15_LossIgnoresPadding ==
    (pc \in {"for", "train", "validate"} /\ loss # << >>) =>
        /\ \A n \in Len(sequence)..(Len(input_seq) + MaxExtraPad),
              more \in [1..MaxExtraPad -> DropoutDraws] :
              LossPaddedTo(n, more) = loss
        /\ Len(loss) = Len(sequence)
        /\ \A t \in DOMAIN loss :
              /\ loss[t].target # VocabIndex(PAD)
              /\ \A a \in loss[t].logits.attends : a[2] # VocabIndex(PAD)

\* Witness of C15: a training sample with pad positions, one of which
\* dropout drew on, has gone through the loss.
C15_Witness ==
    /\ pc = "train"
    /\ mode = "train"
    /\ loss # << >>
    /\ Len(sequence) < Len(input_seq)
    /\ \E i \in (Len(sequence) + 1)..Len(input_seq) : drop[i] = 1

\* C16: every sequence given to the model by train_model, in its training
\* and validation passes, has length exactly max_len, and max_len is the
\* greatest number of tokens of a corpus string plus the two markers.
C16_TrainingSequencesHaveMaxLen ==
    fed # {} =>
        /\ \A seq \in fed : Len(seq) = max_len
        /\ max_len = SetMax({Len(custom_tokenizer(smiles_training[i])) + 2 :
                                i \in DOMAIN smiles_training})

\* Witness of C16: train_model has returned after feeding sequences of
\* strings of different numbers of tokens, one of them padded.
C16_Witness ==
    /\ pc = "returned"
    /\ Cardinality(fed) >= 2
    /\ \E seq \in fed : lookup_token(seq[Len(seq)]) = PAD
    /\ \E seq \in fed : lookup_token(seq[Len(seq)]) = EOS

(***************************************************************************)
(* Model mode, parameters, order of the passes                             *)
(***************************************************************************)

\* C17 (as claimed): once the model is in evaluating mode it never returns
\* to training mode.
C17_NeverBackToTraining ==
    [][mode = "eval" => mode' # "train"]_vars

\* C17 (amended): the mode goes from initialized to training at the first
\* epoch and then alternates, once per epoch: training during every training
\* pass, evaluating during every validation pass and up to the start of the
\* next epoch, which puts the model back into training mode; after the last
\* epoch it stays evaluating.
C17_ModeAlternatesPerEpoch ==
    /\ [](/\ pc = "train" => mode = "train"
          /\ pc \in {"validate", "earlystop", "next"} \cup Ended => mode = "eval"
          /\ pc = "for" => mode = (IF EpochsRun = 0 THEN "init" ELSE "eval"))
    /\ [][mode' # mode =>
            \/ mode \in {"init", "eval"} /\ mode' = "train" /\ pc = "for" /\ pc' = "train"
            \/ mode = "train" /\ mode' = "eval" /\ pc = "train" /\ pc' = "validate"]_vars

\* Witness of C17: a model that has been evaluating (the first epoch's
\* validation pass) is training again, in the second epoch.
C17_Witness ==
    /\ pc = "train"
    /\ mode = "train"
    /\ EpochsRun >= 1
    /\ step >= 1

C20_TrainingBeforeValidationOneReport ==
    /\ [](pc \in {"for", "train", "validate"} =>
            /\ calls.zero_grad = calls.step
            /\ calls.backward = calls.step
            /\ Len(log) = epoch
            /\ \A i \in DOMAIN log : log[i] = <<"epoch", i>>
            /\ pc = "train" => calls.step = epoch * Len(train_smiles) + step
            /\ pc = "validate" => calls.step = (epoch + 1) * Len(train_smiles))
    /\ [][/\ ((mode = "eval" /\ fed' # fed) \/ (pc = "validate" /\ step' = step + 1)) =>
                calls.step = (epoch + 1) * Len(train_smiles)
          /\ log' # log =>
                /\ pc = "validate"
                /\ step = Len(val_smiles)
                /\ log' = Append(log, <<"epoch", epoch + 1>>)]_vars

\* Witness of C20: train_model has returned after two epochs over a training
\* part of two samples.
C20_Witness ==
    /\ pc = "returned"
    /\ Len(train_smiles) >= 2
    /\ Len(log) = 2
    /\ calls.step = 2 * Len(train_smiles)

(***************************************************************************)
(* MultiHeadAttention.__init__                                             *)
(***************************************************************************)

\* C19: constructing the attention module fails when embed_dim is not an
\* exact multiple of num_heads, and succeeds with
\* head_dim * num_heads = embed_dim when it is.
C19_ConstructionChecksDivisibility ==
    attention # "none" =>
        IF num_heads # 0 /\ embed_dim % num_heads = 0
          THEN /\ attention = "constructed"
               /\ head_dim * num_heads = embed_dim
          ELSE attention \in {"AssertionError", "ZeroDivisionError"}

\* Witness of C19: a construction with two or more heads and a width that
\* is not a multiple of them has failed the assertion.
C19_Witness ==
    /\ attention = "AssertionError"
    /\ num_heads >= 2
    /\ embed_dim > num_heads

(***************************************************************************)
(* Checkpoint writes, log lines and early-stopping bookkeeping             *)
(***************************************************************************)

\* C21: the checkpoint file changes only in the early-stopping block, when
\* the training pass and the validation pass of the epoch are complete, or
\* in the save after the loop; it never changes while a training or a
\* validation pass is under way.
C21_NoPartialEpochCheckpoint ==
    [][/\ ckpt' # ckpt =>
            \/ /\ pc = "earlystop"
               /\ step = ValBatches
               /\ Len(saved_epochs) = epoch + 1
               /\ saved_epochs[epoch + 1] = params
               /\ ckpt' = <<params>>
            \/ /\ pc = "save"
               /\ ckpt' = <<params>>
       /\ pc \in {"train", "validate"} => ckpt' = ckpt]_vars

\* Witness of C21: a checkpoint written by the early-stopping block of a
\* completed epoch is on disk while a later epoch's training pass is under
\* way, after an optimizer step of that pass.
C21_Witness ==
    /\ pc = "train"
    /\ step >= 1
    /\ epoch >= 1
    /\ ckpt # << >>
    /\ ckpt # <<params>>

HasLine(line) == \E i \in DOMAIN log : log[i] = line
HasEarlyStoppingLine == \E i \in DOMAIN log : log[i][1] = "early stopping"
EndedByPatience == patience_counter >= patience

\* C24 (as claimed): in a finished run of an early-stopping loop the
\* early-stopping message is in the log exactly when the run ended because
\* the patience counter reached patience, a run that ended by exhausting the
\* epoch budget has a completion line, and an early-stopped run has none.
C24_CompletionLineOnlyOnBudgetExhaustion ==
    (HasEarlyStopping /\ pc = "finished") =>
        /\ HasEarlyStoppingLine <=> EndedByPatience
        /\ ~EndedByPatience => HasLine(<<"Training complete">>)
        /\ EndedByPatience => ~HasLine(<<"Training complete">>)

\* C24 (amended): the early-stopping message is in the log exactly when the
\* run ended because the patience counter reached patience, once, as the
\* last line before the statements after the loop; a run that ended by
\* exhausting the budget differs from it only by lacking that message: the
\* Transformer notebook prints "Training complete" after the loop however
\* the loop ended, and the Autoencoder notebook prints no completion line.
C24_EarlyStoppingLineOnlyDistinguishes ==
    (HasEarlyStopping /\ pc = "finished") =>
        /\ HasEarlyStoppingLine <=> EndedByPatience
        /\ EndedByPatience =>
              /\ HasLine(<<"early stopping", EpochsRun>>)
              /\ Cardinality({i \in DOMAIN log : log[i][1] = "early stopping"}) = 1
        /\ HasLine(<<"Training complete">>) <=> (loop = "transformer")
        /\ loop = "transformer" => log[Len(log)] = <<"Training complete">>

\* Witness of C24: an early-stopped run of the Transformer notebook has
\* finished with both lines in its log.
C24_Witness ==
    /\ loop = "transformer"
    /\ pc = "finished"
    /\ EndedByPatience
    /\ HasEarlyStoppingLine
    /\ HasLine(<<"Training complete">>)

FiniteMin(h) == CHOOSE x \in {h[i] : i \in DOMAIN h} : \A i \in DOMAIN h : x <= h[i]

C29_EvaluateReturnsForEveryList ==
    EvaluationOver => (pc = "evaluated" /\ Len(result) = 3)

(***************************************************************************)
(* custom_tokenizer as a function of the string and the token list         *)
(***************************************************************************)

\* C26: for every string and every token list the encoder has tokenized
\* with, the tokens returned by custom_tokenizer, concatenated in order, are
\* the string: no character is lost and none is invented.
C26_TokensConcatenateToString ==
    Encoded => Join(custom_tokenizer(smiles)) = smiles

\* Witness of C26: a string has been cut into several tokens, one of them a
\* token of the vocabulary file.
C26_Witness ==
    /\ Encoded
    /\ Len(custom_tokenizer(smiles)) >= 2
    /\ \E i \in DOMAIN custom_tokenizer(smiles) : \E j \in DOMAIN custom_tokens :
           /\ custom_tokenizer(smiles)[i] = custom_tokens[j]
           /\ Len(custom_tokens[j]) >= 2

\* the occurrences of token t in string s, as start positions
Occurrences(s, t) == {i \in 1..(Len(s) - Len(t) + 1) : SubSeq(s, i, i + Len(t) - 1) = t}

\* C27: after custom_tokenizer has processed the first k tokens of the
\* list, for every k up to the whole list, a returned fragment that contains
\* one of those k tokens is that token.
C27_NoFragmentProperlyContainsToken ==
    Encoded =>
        \A k \in 0..Len(custom_tokens) :
            LET returned == Tokenize(smiles, SubSeq(custom_tokens, 1, k))
            IN  \A j \in 1..k : \A i \in DOMAIN returned :
                    Contains(returned[i], custom_tokens[j])
                        => returned[i] = custom_tokens[j]

\* Witness of C27: a string with overlapping occurrences of the second
\* token has been tokenized with a list whose first token contains the
\* second.
C27_Witness ==
    /\ Encoded
    /\ Len(custom_tokens) = 2
    /\ Contains(custom_tokens[1], custom_tokens[2])
    /\ \E a, b \in Occurrences(smiles, custom_tokens[2]) :
           a < b /\ b < a + Len(custom_tokens[2])

(***************************************************************************)
(* MultiHeadAttention.forward: which samples an output row is built from   *)
(***************************************************************************)

\* C28 (as claimed): after MultiHeadAttention.forward, for every batch size,
\* head count and embedding width, output row i is built only from elements
\* computed from input row i.
C28_RowsBuiltFromOwnSample ==
    batch_size > 0 => \A i \in 1..batch_size : rows[i] = {i - 1}

(***************************************************************************)
(* scatter_plot: the inputs of the two subplots                            *)
(***************************************************************************)
PlotCompleted == plot \in {"subplot2", "saved"}

\* C25: when scatter_plot has drawn both subplots, both models were
\* evaluated on exactly one batch, the first of the loader; the two subplots
\* scattered the same gene indices, those of gene_indices; gene_indices
\* starts with the num_genes distinct indices drawn at random and holds
\* every highlighted index exactly once. From the highlighting loop on,
\* every highlighted index is in gene_indices exactly once.
C25_SameBatchAndGenesForBothModels ==
    /\ PlotCompleted =>
           /\ batches1 = <<data_loader[1]>>
           /\ batches2 = batches1
           /\ plotted1 = gene_indices
           /\ plotted2 = plotted1
           /\ Len(gene_indices) >= num_genes
           /\ \A i, j \in 1..num_genes : i # j => gene_indices[i] # gene_indices[j]
    /\ (plot \in {"highlighted", "colors", "subplot1", "subplot2", "saved", "IndexError"}
           /\ highlight_gene_indices.given) =>
           \A h \in DOMAIN highlight_gene_indices.list :
               Cardinality({i \in DOMAIN gene_indices :
                               gene_indices[i] = highlight_gene_indices.list[h]}) = 1

\* Witness of C25: the figure is saved for a loader of two batches, with a
\* highlighted index that was drawn at random, one that was appended, and
\* the same index highlighted twice.
C25_Witness ==
    /\ plot = "saved"
    /\ Len(data_loader) = 2
    /\ num_genes >= 1
    /\ highlight_gene_indices.given
    /\ Len(highlight_gene_indices.list) = 2
    /\ Len(gene_indices) > num_genes
    /\ \/ highlight_gene_indices.list[1] = highlight_gene_indices.list[2]
       \/ \E i \in 1..num_genes : \E h \in 1..2 :
              gene_indices[i] = highlight_gene_indices.list[h]

(***************************************************************************)
(* The learned vocabulary and the two segmentations                        *)
(***************************************************************************)
Scenario == smiles_training = ScenarioCorpus /\ min_frequency = 2

FirstNonSpecial == itos[Len(Specials) + 1]

\* C22 (as claimed): for the corpus ["CCO", "CCN", "CCOCC"] with
\* min_frequency = 2 the first pair merged is ("C", "C"), at frequency 3, no
\* pair is merged at a higher frequency, and the vocabulary's first
\* non-special entry is "CC".
C22_FirstMergeAtFrequencyThree ==
    (Scenario /\ merges # << >>) =>
        /\ merges[1] = << <<"C">>, <<"C">> >>
        /\ frequencies[1] = 3
        /\ \A i \in DOMAIN frequencies : frequencies[i] <= frequencies[1]
        /\ tpc \in {"vocab", "segmented"} =>
               /\ custom_tokens[1] = <<"C", "C">>
               /\ FirstNonSpecial = <<"C", "C">>

\* C22 (amended): for the corpus ["CCO", "CCN", "CCOCC"] with
\* min_frequency = 2 the first pair merged is ("C", "C"), at frequency 4
\* (once in "CCO", once in "CCN", twice in "CCOCC"), every other pair is
\* merged later and at a lower frequency, and the first token of the
\* vocabulary file and the vocabulary's first non-special entry are "CC".
C22_FirstMergeAtFrequencyFour ==
    (Scenario /\ merges # << >>) =>
        /\ merges[1] = << <<"C">>, <<"C">> >>
        /\ frequencies[1] = 4
        /\ \A i \in DOMAIN frequencies : i > 1 => frequencies[i] < frequencies[1]
        /\ tpc \in {"vocab", "segmented"} =>
               /\ custom_tokens[1] = <<"C", "C">>
               /\ FirstNonSpecial = <<"C", "C">>

\* Witness of C22: the scenario's vocabulary is built after two merges,
\* ("C", "C") and then ("CC", "O").
C22_Witness ==
    /\ Scenario
    /\ tpc = "vocab"
    /\ Len(merges) = 2
    /\ custom_tokens = << <<"C", "C">>, <<"C", "C", "O">> >>
    /\ FirstNonSpecial = <<"C", "C">>

Reverse(list) == [i \in DOMAIN list |-> list[Len(list) + 1 - i]]

\* C23: there are a token list and a string on which custom_tokenizer and
\* the rank-ordered merges differ, and on which custom_tokenizer depends on
\* the order of the list: with the vocabulary learned from
\* ["CC", "CC", "CO", "CCO", "CCO"] (tokens "CC", "CCO", "CO" in merge
\* order), custom_tokenizer cuts "CCO" into "CC", "O", the merges give the
\* one token "CCO", and custom_tokenizer with the list reversed gives "C",
\* "CO".
C23_FileOrderDiffersFromMergeOrder ==
    (/\ tpc = "segmented"
     /\ smiles_training = OverlapCorpus
     /\ min_frequency = 1
     /\ num_symbols >= 3
     /\ smiles = <<"C", "C", "O">>) =>
        /\ custom_tokens = << <<"C", "C">>, <<"C", "C", "O">>, <<"C", "O">> >>
        /\ fragments = << <<"C", "C">>, <<"O">> >>
        /\ spe_fragments = << <<"C", "C", "O">> >>
        /\ Tokenize(smiles, Reverse(custom_tokens)) = << <<"C">>, <<"C", "O">> >>

\* Witness of C23: a string has been segmented both ways, the two
\* segmentations differ, and custom_tokenizer with the reversed token list
\* gives a third one.
C23_Witness ==
    /\ tpc = "segmented"
    /\ fragments # spe_fragments
    /\ Tokenize(smiles, Reverse(custom_tokens)) # fragments
    /\ Tokenize(smiles, Reverse(custom_tokens)) # spe_fragments

====
